---- MODULE Spec2Model ----
(***************************************************************************)
(* Volunteer log (src/src/main.rs): the entry list held by the App         *)
(* component, the localStorage slot it is loaded from and saved to, the    *)
(* entry form, and the handlers on_add, on_clear_all and on_export_csv.    *)
(*                                                                         *)
(* Text is a sequence of one-character strings.  An f32 is a record        *)
(* [cls, tenths]: cls is "finite", "inf", "ninf" or "nan", and tenths is   *)
(* the value in tenths for a finite number (0 otherwise).                  *)
(***************************************************************************)
EXTENDS Integers, Sequences, FiniteSets, TLC

VARIABLES
    entries,    \* the `entries` state cell: the in-memory Vec<Entry>, front first
    slot,       \* localStorage[LS_KEY]: <<>> when absent, <<raw>> when present
    form,       \* the six form state cells
    now,        \* the wall clock, milliseconds since 1970-01-01T00:00:00Z
    alert,      \* the message the last event passed to window.alert ("" if none)
    download    \* the text the last event passed to download_text (<<>> if none)

vars == <<entries, slot, form, now, alert, download>>

(***************************************************************************)
(* Bounds of the model.                                                    *)
(***************************************************************************)
MaxEntries == 2     \* on_add is not taken once the list holds this many
MaxAdvance == 1     \* the clock advances by at most this many days

(***************************************************************************)
(* The clock (js_sys::Date).                                               *)
(***************************************************************************)
MsPerSec == 1000
MsPerDay == 86400000

F32(c, t) == [cls |-> c, tenths |-> t]
Finite(t) == F32("finite", t)
PosInf == F32("inf", 0)
NegInf == F32("ninf", 0)
NaN == F32("nan", 0)

\* a comparison that lets zero through: `h < 0.0`
LeZero_Strict(h) == h.cls = "ninf" \/ (h.cls = "finite" /\ h.tenths < 0)

\* f32 comparison `h <= 0.0`: false for NaN
LeZero(h) == h.cls = "ninf" \/ (h.cls = "finite" /\ h.tenths <= 0)

\* str::trim: strip leading and trailing whitespace
WhiteSpace == {" ", "\n", "\t"}

RECURSIVE TrimStart(_)
TrimStart(s) ==
    IF s # <<>> /\ Head(s) \in WhiteSpace THEN TrimStart(Tail(s)) ELSE s

RECURSIVE TrimEnd(_)
TrimEnd(s) ==
    IF s # <<>> /\ s[Len(s)] \in WhiteSpace
    THEN TrimEnd(SubSeq(s, 1, Len(s) - 1))
    ELSE s

trim(s) == TrimEnd(TrimStart(s))

\* <f32 as FromStr>::from_str on the literals the model types; every other
\* text (the empty one included) is a parse error
ParseF32(s) ==
    CASE s = <<"1", ".", "0">> -> [ok |-> TRUE, val |-> Finite(10)]
      [] s = <<"2", ".", "5">> -> [ok |-> TRUE, val |-> Finite(25)]
      [] s = <<"0">> -> [ok |-> TRUE, val |-> Finite(0)]
      [] s = <<"-", "1">> -> [ok |-> TRUE, val |-> Finite(-10)]
      [] s = <<"N", "a", "N">> -> [ok |-> TRUE, val |-> NaN]
      [] s = <<"i", "n", "f">> -> [ok |-> TRUE, val |-> PosInf]
      [] s = <<"-", "i", "n", "f">> -> [ok |-> TRUE, val |-> NegInf]
      [] s = <<"1", "e", "3", "9">> -> [ok |-> TRUE, val |-> PosInf]
      [] OTHER -> [ok |-> FALSE, val |-> Finite(0)]

\* h_raw.parse().unwrap_or(0.0)
ParseOrZero(s) == IF ParseF32(s).ok THEN ParseF32(s).val ELSE Finite(0)

\* decimal digits of a natural number, as format!("{}", n) prints them
RECURSIVE Digits(_)
Digits(n) == IF n < 10 THEN <<n>> ELSE Append(Digits(n \div 10), n % 10)

\* uid(), called when the clock reads t: the millisecond clock, printed
uid(t) == Digits(t)

\* Date::to_string() starts "Www Mmm DD YYYY HH:MM:SS": each field has a fixed
\* width, so texts compare as the tuples of their fields do, the names by
\* alphabet.  1970-01-01 was a Thursday; the model stays inside January 1970.
\* The day names in alphabetical order, and the place in it of each day of the
\* week, Sunday first; January is fifth of the month names.
DowByAlpha == <<"Fri", "Mon", "Sat", "Sun", "Thu", "Tue", "Wed">>
DowAlpha == <<4, 2, 6, 7, 5, 1, 3>>
Dow(t) == ((4 + (t \div MsPerDay)) % 7) + 1
JanAlpha == 5

\* now_stamp(), called when the clock reads t
now_stamp(t) ==
    <<DowAlpha[Dow(t)], JanAlpha, (t \div MsPerDay) + 1, 1970,
      (t % MsPerDay) \div MsPerSec>>

\* String::cmp on two stamps: lexicographic
RECURSIVE LexLess(_, _)
LexLess(a, b) ==
    IF a = <<>> THEN b # <<>>
    ELSE IF b = <<>> THEN FALSE
    ELSE IF Head(a) # Head(b) THEN Head(a) < Head(b)
    ELSE LexLess(Tail(a), Tail(b))

(***************************************************************************)
(* serde_json: the slot holds the JSON text of the list.  The model keeps  *)
(* the array-of-objects structure and encodes what the text encodes: each  *)
(* string escaped, each f32 as a number, or as null when it is not finite. *)
(***************************************************************************)
JsonEscChar(c) ==
    CASE c = "\"" -> <<"\\", "\"">>
      [] c = "\\" -> <<"\\", "\\">>
      [] c = "\n" -> <<"\\", "n">>
      [] c = "\t" -> <<"\\", "t">>
      [] OTHER -> <<c>>

RECURSIVE JsonStr(_)
JsonStr(s) == IF s = <<>> THEN <<>> ELSE JsonEscChar(Head(s)) \o JsonStr(Tail(s))

JsonUnescChar(c) ==
    CASE c = "n" -> "\n"
      [] c = "t" -> "\t"
      [] OTHER -> c

RECURSIVE JsonUnstr(_)
JsonUnstr(s) ==
    IF s = <<>> THEN <<>>
    ELSE IF Head(s) = "\\" /\ Len(s) >= 2
         THEN <<JsonUnescChar(s[2])>> \o JsonUnstr(Tail(Tail(s)))
         ELSE <<Head(s)>> \o JsonUnstr(Tail(s))

\* Serializer::serialize_f32: a finite number is printed, any other is null
JsonF32(h) ==
    IF h.cls = "finite" THEN [json |-> "number", tenths |-> h.tenths]
    ELSE [json |-> "null", tenths |-> 0]

\* #[derive(Serialize)] for Entry
SerEntry(e) ==
    [id |-> e.id, date |-> JsonStr(e.date), org |-> JsonStr(e.org),
     hours |-> JsonF32(e.hours), tasks |-> JsonStr(e.tasks),
     reflection |-> JsonStr(e.reflection), tags |-> JsonStr(e.tags),
     created_at |-> e.created_at]

\* #[derive(Deserialize)] for Entry, on an object whose hours is a number
DeEntry(j) ==
    [id |-> j.id, date |-> JsonUnstr(j.date), org |-> JsonUnstr(j.org),
     hours |-> Finite(j.hours.tenths), tasks |-> JsonUnstr(j.tasks),
     reflection |-> JsonUnstr(j.reflection), tags |-> JsonUnstr(j.tags),
     created_at |-> j.created_at]

\* serde_json::to_string(entries): never an error for a Vec<Entry>
to_string(list) == [i \in 1..Len(list) |-> SerEntry(list[i])]

\* serde_json::from_str::<Vec<Entry>>(raw): null is not an f32, and one bad
\* element fails the whole list
from_str(raw) ==
    IF \E i \in 1..Len(raw) : raw[i].hours.json # "number"
    THEN [ok |-> FALSE, val |-> <<>>]
    ELSE [ok |-> TRUE, val |-> [i \in 1..Len(raw) |-> DeEntry(raw[i])]]

(***************************************************************************)
(* The storage slot.  Each handler's storage call has one of three         *)
(* outcomes: it works, window.local_storage() gives no Storage, or the     *)
(* get_item / set_item call itself returns Err.                            *)
(***************************************************************************)
StorageOutcomes == {"ok", "no_storage", "item_err"}

\* load_entries(): the list a load returns when its storage call ends `env`
load_entries(env) ==
    IF env # "ok" THEN <<>>
    ELSE IF slot = <<>> THEN <<>>
    ELSE IF from_str(slot[1]).ok THEN from_str(slot[1]).val
    ELSE <<>>

\* a save that removes the item when it cannot write it
save_entries_DropsOnFailure(list, env) ==
    IF env = "ok" THEN <<to_string(list)>> ELSE <<>>

\* save_entries(list): the slot after a save whose storage call ends `env`
save_entries(list, env) ==
    IF env = "ok" THEN <<to_string(list)>> ELSE slot

\* e.sort_by(|a, b| b.created_at.cmp(&a.created_at)): stable, descending
RECURSIVE InsertDesc(_, _)
InsertDesc(e, s) ==
    IF s = <<>> THEN <<e>>
    ELSE IF LexLess(e.created_at, Head(s).created_at)
         THEN <<Head(s)>> \o InsertDesc(e, Tail(s))
         ELSE <<e>> \o s

RECURSIVE sort_newest_first(_)
sort_newest_first(s) ==
    IF s = <<>> THEN <<>>
    ELSE InsertDesc(Head(s), sort_newest_first(Tail(s)))

(***************************************************************************)
(* The form.                                                               *)
(***************************************************************************)
FormDefault ==
    [date |-> <<>>, org |-> <<>>, hours |-> <<"1", ".", "0">>,
     tasks |-> <<>>, reflection |-> <<>>, tags |-> <<>>]

\* what the user types into the date, organization and hours fields; the
\* tasks and tags fields and the reflection <textarea> are left as they start
Typed ==
    [date |-> {<<" ">>, <<" ", "d">>},
     org |-> {<<>>, <<"o", " ">>},
     hours |-> {<<"1", ".", "0">>, <<"a", "b", "c">>, <<"0">>, <<"-", "1">>,
                <<"N", "a", "N">>}]

InputFields == {"date", "org", "hours"}

MsgMissing == <<"Please enter at least Date and Organization.">>
MsgHours == <<"Hours must be greater than 0.">>
NoAlert == <<>>

(***************************************************************************)
(* The state after the first render on a device whose slot is absent.      *)
(***************************************************************************)
Init ==
    /\ entries = <<>>
    /\ slot = <<>>
    /\ form = FormDefault
    /\ now = 0
    /\ alert = NoAlert
    /\ download = <<>>

\* app(): the use_state initialisers of a (re)started page
app_start(env) ==
    /\ entries' = sort_newest_first(load_entries(env))
    /\ form' = FormDefault
    /\ alert' = NoAlert
    /\ download' = <<>>
    /\ UNCHANGED <<slot, now>>

\* bind_input(state): an input event on one of the <input> fields
bind_input(field, value) ==
    /\ form' = [form EXCEPT ![field] = value]
    /\ alert' = NoAlert
    /\ download' = <<>>
    /\ UNCHANGED <<entries, slot, now>>

\* the Entry on_add builds from the trimmed fields
NewEntry(clock, d, o, h, t, r, g) ==
    [id |-> uid(clock), date |-> d, org |-> o, hours |-> h, tasks |-> t,
     reflection |-> r, tags |-> g, created_at |-> now_stamp(clock)]

\* a validation that checks the hours before the required fields
Validate_HoursFirst(d, o, h) ==
    IF LeZero(h) THEN MsgHours
    ELSE IF d = <<>> \/ o = <<>> THEN MsgMissing
    ELSE NoAlert

\* the two checks of on_add, in their order: the alert raised, or none
Validate(d, o, h) ==
    IF d = <<>> \/ o = <<>> THEN MsgMissing
    ELSE IF LeZero(h) THEN MsgHours
    ELSE NoAlert

\* on_add: the Add Entry click
on_add(env) ==
    LET d == trim(form.date)
        o == trim(form.org)
        h_raw == trim(form.hours)
        t == trim(form.tasks)
        r == trim(form.reflection)
        g == trim(form.tags)
        h == ParseOrZero(h_raw)
        next == <<NewEntry(now, d, o, h, t, r, g)>> \o entries
    IN  /\ download' = <<>>
        /\ alert' = Validate(d, o, h)
        /\ IF Validate(d, o, h) # NoAlert
           THEN UNCHANGED <<entries, slot, form, now>>
           ELSE /\ Len(entries) < MaxEntries
                /\ entries' = next
                /\ slot' = save_entries(next, env)
                /\ form' = [form EXCEPT !.tasks = <<>>, !.reflection = <<>>,
                                        !.tags = <<>>]
                /\ UNCHANGED now

\* a clear-all that does not wait for the answer
on_clear_all_Unconfirmed(ok, env) ==
    /\ alert' = NoAlert
    /\ download' = <<>>
    /\ slot' = save_entries(<<>>, env)
    /\ entries' = <<>>
    /\ UNCHANGED <<form, now>>

\* on_clear_all: the Clear All click; ok is the confirm prompt's answer, an
\* Err of the prompt counting as no
on_clear_all(ok, env) ==
    /\ alert' = NoAlert
    /\ download' = <<>>
    /\ IF ~ok
       THEN UNCHANGED <<entries, slot, form, now>>
       ELSE /\ slot' = save_entries(<<>>, env)
            /\ entries' = <<>>
            /\ UNCHANGED <<form, now>>

\* time passes, to the same time on the next day
Tick ==
    /\ now \div MsPerDay < MaxAdvance
    /\ now' = now + MsPerDay
    /\ UNCHANGED <<entries, slot, form, alert, download>>

Next ==
    \/ \E env \in StorageOutcomes : app_start(env)
    \/ \E field \in InputFields : \E value \in Typed[field] : bind_input(field, value)
    \/ \E env \in StorageOutcomes : on_add(env)
    \/ \E env \in StorageOutcomes : on_clear_all(TRUE, env)
    \/ on_clear_all(FALSE, "ok")
    \/ Tick

Spec == Init /\ [][Next]_vars

(***************************************************************************)
(* The CSV export.                                                         *)
(***************************************************************************)
DigitChars == <<"0", "1", "2", "3", "4", "5", "6", "7", "8", "9">>

\* the decimal digits of n as text
NatText(n) == [i \in 1..Len(Digits(n)) |-> DigitChars[Digits(n)[i] + 1]]

\* n printed in two digits
TwoDigits(n) == <<DigitChars[(n \div 10) + 1], DigitChars[(n % 10) + 1]>>

\* the text of a stamp, "Thu Jan 01 1970 00:00:00 GMT+0000 (...)"
StampText(st) ==
    <<DowByAlpha[st[1]], " ", "Jan", " ">> \o TwoDigits(st[3]) \o <<" ">>
    \o NatText(st[4]) \o <<" ">> \o TwoDigits(st[5] \div 3600) \o <<":">>
    \o TwoDigits((st[5] % 3600) \div 60) \o <<":">> \o TwoDigits(st[5] % 60)
    \o <<" ", "GMT+0000">>

\* <f32 as Display>::fmt
FmtF32(h) ==
    CASE h.cls = "nan" -> <<"N", "a", "N">>
      [] h.cls = "inf" -> <<"i", "n", "f">>
      [] h.cls = "ninf" -> <<"-", "i", "n", "f">>
      [] OTHER ->
           LET a == IF h.tenths < 0 THEN -h.tenths ELSE h.tenths
               sign == IF h.tenths < 0 THEN <<"-">> ELSE <<>>
               frac == IF a % 10 = 0 THEN <<>> ELSE <<".", DigitChars[(a % 10) + 1]>>
           IN  sign \o NatText(a \div 10) \o frac

\* s.replace('"', "\"\"")
RECURSIVE DoubleQuotes(_)
DoubleQuotes(s) ==
    IF s = <<>> THEN <<>>
    ELSE IF Head(s) = "\"" THEN <<"\"", "\"">> \o DoubleQuotes(Tail(s))
    ELSE <<Head(s)>> \o DoubleQuotes(Tail(s))

\* an esc that wraps without doubling
esc_NoDoubling(s) == <<"\"">> \o s \o <<"\"">>

\* the esc closure: format!("\"{}\"", s.replace('"', "\"\""))
esc(s) == <<"\"">> \o DoubleQuotes(s) \o <<"\"">>

CsvHeader ==
    <<"date", ",", "organization", ",", "hours", ",", "tasks", ",", "reflection",
      ",", "tags", ",", "created_at", "\n">>

\* one format!("{},{},{},{},{},{},{}\n", ...) row
CsvRow(e) ==
    esc(e.date) \o <<",">> \o esc(e.org) \o <<",">> \o FmtF32(e.hours) \o <<",">>
    \o esc(e.tasks) \o <<",">> \o esc(e.reflection) \o <<",">> \o esc(e.tags)
    \o <<",">> \o esc(StampText(e.created_at)) \o <<"\n">>

\* the text on_export_csv builds: the header, then a row per entry in list order
RECURSIVE CsvRows(_)
CsvRows(list) ==
    IF list = <<>> THEN <<>> ELSE CsvRow(Head(list)) \o CsvRows(Tail(list))

to_tabular(list) == CsvHeader \o CsvRows(list)

\* on_export_csv: the Export CSV click
on_export_csv ==
    /\ download' = to_tabular(entries)
    /\ alert' = NoAlert
    /\ UNCHANGED <<entries, slot, form, now>>

(***************************************************************************)
(* The export over a range of lists: the lists of up to MaxEntries entries *)
(* that on_add builds from the texts below, on a page that saved them.     *)
(***************************************************************************)
CsvTasks == {<<>>, <<"s", ",", " ", "\"", "f", "\"">>}
CsvReflections == {<<>>, <<"a", "\n", "b">>}
CsvHours == {Finite(10), Finite(25), NaN}

CsvEntries ==
    {NewEntry(0, <<"d">>, <<"o">>, h, t, r, <<>>) :
        h \in CsvHours, t \in CsvTasks, r \in CsvReflections}

ListsUpTo(n) == UNION {[1..k -> CsvEntries] : k \in 0..n}

InitCsv ==
    /\ entries \in ListsUpTo(MaxEntries)
    /\ slot = <<to_string(entries)>>
    /\ form = FormDefault
    /\ now = 0
    /\ alert = NoAlert
    /\ download = <<>>

NextCsv == on_export_csv

SpecCsv == InitCsv /\ [][NextCsv]_vars

(***************************************************************************)
(* Properties.                                                             *)
(***************************************************************************)
\* f32 comparison `h > 0.0`: false for NaN
GtZero(h) == h.cls = "inf" \/ (h.cls = "finite" /\ h.tenths > 0)

\* the slot holds text that does not decode as a Vec<Entry>
SlotUndecodable ==
    slot # <<>> /\ \E i \in 1..Len(slot[1]) : slot[1][i].hours.json = "null"

\* the list a load that reaches the store returns
Persisted == load_entries("ok")

\* an on_add step: it raises an alert or it lengthens the list by one
AddStep(env) ==
    (alert' # NoAlert \/ Len(entries') = Len(entries) + 1) /\ on_add(env)

\* an on_add step that added an entry
AddedWith(env) == Len(entries') = Len(entries) + 1 /\ on_add(env)

\* C1: every entry of the in-memory list and every entry written to the slot
\* has a non-empty trimmed date, a non-empty trimmed org and hours > 0,
\* whatever hours text was typed (NaN included).
C1_StoredEntriesValid ==
    /\ \A i \in 1..Len(entries) :
          /\ trim(entries[i].date) # <<>>
          /\ trim(entries[i].org) # <<>>
          /\ GtZero(entries[i].hours)
    /\ slot # <<>> =>
          \A i \in 1..Len(slot[1]) :
              /\ trim(JsonUnstr(slot[1][i].date)) # <<>>
              /\ trim(JsonUnstr(slot[1][i].org)) # <<>>
              /\ slot[1][i].hours.json = "number"
              /\ slot[1][i].hours.tenths > 0

\* C2: with the store available, after every successful add and every
\* confirmed clear-all, a load of the slot returns exactly the list adopted as
\* the in-memory state.
C2_LoadReturnsAdoptedList ==
    [][(AddedWith("ok") \/ on_clear_all(TRUE, "ok")) => Persisted' = entries']_vars

\* C3: the in-memory list is newest-first by created_at in every reachable
\* state: no entry's created_at is less than that of an entry after it, which
\* is the order a load-and-sort of the saved slot produces.
C3_ListNewestFirst ==
    \A i \in 1..Len(entries) : \A j \in 1..Len(entries) :
        i < j => ~LexLess(entries[i].created_at, entries[j].created_at)

\* C4: no two entries share an id, two entries created within one clock tick
\* included.
C4_IdsUnique ==
    \A i \in 1..Len(entries) : \A j \in 1..Len(entries) :
        i # j => entries[i].id # entries[j].id

\* the form holds an input the claim counts as failing validation: date or org
\* empty after trimming, hours unparsable or at most 0
C5_InputRejected ==
    \/ trim(form.date) = <<>>
    \/ trim(form.org) = <<>>
    \/ ~ParseF32(trim(form.hours)).ok
    \/ ParseF32(trim(form.hours)).val.cls = "ninf"
    \/ /\ ParseF32(trim(form.hours)).val.cls = "finite"
       /\ ParseF32(trim(form.hours)).val.tenths <= 0

C6_HoursBad ==
    \/ ~ParseF32(trim(form.hours)).ok
    \/ ParseF32(trim(form.hours)).val.cls = "ninf"
    \/ /\ ParseF32(trim(form.hours)).val.cls = "finite"
       /\ ParseF32(trim(form.hours)).val.tenths <= 0

\* date or org is empty after trimming
C6_RequiredMissing == trim(form.date) = <<>> \/ trim(form.org) = <<>>

\* C6 as stated: an add whose hours are unparsable or at most 0 is rejected
\* with the hours error whatever the other fields hold, and an add whose date
\* or org is empty after trimming is rejected with the missing-required error.
C6_HoursErrorWhateverTheRest ==
    [][\A env \in StorageOutcomes :
          AddStep(env) =>
              /\ C6_HoursBad => alert' = MsgHours
              /\ C6_RequiredMissing => alert' = MsgMissing]_vars

\* C6 amended: an add whose date or org is empty after trimming is rejected
\* with the missing-required error whatever the hours hold; an add whose date
\* and org are both non-empty after trimming and whose hours are unparsable or
\* at most 0 is rejected with the hours error.
C6_RequiredThenHours ==
    [][\A env \in StorageOutcomes :
          AddStep(env) =>
              /\ C6_RequiredMissing => alert' = MsgMissing
              /\ (~C6_RequiredMissing /\ C6_HoursBad) => alert' = MsgHours]_vars

\* C6's case: the hours error raised for an unparsable hours text
C6_Witness ==
    /\ alert = MsgHours
    /\ form.hours = <<"a", "b", "c">>
    /\ ~C6_RequiredMissing

\* C7 as stated: after a confirmed clear-all the in-memory list is empty and a
\* subsequent load returns the empty list; a declined one changes neither the
\* list nor the slot.
C7_ClearAllEmptiesBoth ==
    [][/\ \A env \in StorageOutcomes :
             on_clear_all(TRUE, env) =>
                 /\ entries' = <<>>
                 /\ \A later \in StorageOutcomes : load_entries(later)' = <<>>
       /\ on_clear_all(FALSE, "ok") => (entries' = entries /\ slot' = slot)]_vars

\* C7 amended: a confirmed clear-all empties the in-memory list; when its save
\* reaches the store the slot holds the empty list and every subsequent load
\* returns the empty list, and when the store is unavailable the slot keeps
\* its contents; a declined one changes neither the list nor the slot.
C7_ClearAllEmptiesListAndReachableSlot ==
    [][/\ \A env \in StorageOutcomes :
             on_clear_all(TRUE, env) =>
                 /\ entries' = <<>>
                 /\ env = "ok" =>
                       /\ slot' = <<(<<>>)>>
                       /\ \A later \in StorageOutcomes : load_entries(later)' = <<>>
                 /\ env # "ok" => slot' = slot
       /\ on_clear_all(FALSE, "ok") => (entries' = entries /\ slot' = slot)]_vars

\* C7's case: a confirmed clear-all was saved over a slot that held entries
C7_Witness == entries = <<>> /\ slot = <<(<<>>)>> /\ now > 0

\* C8: a load returns the empty list when the store is unreachable, the slot is
\* absent or its content does not decode; a save issued while the store is
\* unavailable leaves the slot as it was, and the add or clear-all that issued
\* it still adopts the new list.
C8_StorageFailuresAbsorbed ==
    [][/\ \A env \in StorageOutcomes \ {"ok"} :
             /\ app_start(env) => entries' = <<>>
             /\ AddedWith(env) =>
                   /\ slot' = slot
                   /\ Tail(entries') = entries
                   /\ Head(entries').hours = ParseOrZero(trim(form.hours))
             /\ on_clear_all(TRUE, env) => (slot' = slot /\ entries' = <<>>)
       /\ ((slot = <<>> \/ SlotUndecodable) /\ app_start("ok")) => entries' = <<>>
       /\ (slot = <<>> \/ SlotUndecodable) => Persisted = <<>>]_vars

\* C8's case: the list holds an entry whose save was dropped
C8_Witness == Len(entries) >= 1 /\ slot = <<>>

\* C9: entries persisted in the slot are never removed or overwritten except
\* by a confirmed clear-all: every other step keeps each entry a load returned
\* before it among those a load returns after it.
C9_PersistedOnlyClearedByUser ==
    [][\/ \E env \in StorageOutcomes : on_clear_all(TRUE, env)
       \/ \A i \in 1..Len(Persisted) :
             \E j \in 1..Len(Persisted') : Persisted'[j] = Persisted[i]]_vars

(***************************************************************************)
(* A reader of CSV text (RFC 4180): a quote opens a quoted field, in which  *)
(* a doubled quote is one quote and commas and line breaks are data; a      *)
(* comma ends a field and a line break outside quotes ends a record.        *)
(***************************************************************************)
\* the quote characters before place i: even when place i is outside quotes
QuotesBefore(text, i) == Cardinality({k \in 1..(i - 1) : text[k] = "\""})

\* the places of the commas and line breaks that separate fields
Separators(text) ==
    {i \in 1..Len(text) :
        text[i] \in {",", "\n"} /\ QuotesBefore(text, i) % 2 = 0}

\* the k-th smallest member of a set of numbers
Nth(S, k) == CHOOSE x \in S : Cardinality({y \in S : y < x}) = k - 1

\* the members of a set of numbers, in rising order
Rising(S) == [k \in 1..Cardinality(S) |-> Nth(S, k)]

\* a quoted field's content, each doubled quote read as one
RECURSIVE Undouble(_)
Undouble(s) ==
    IF s = <<>> THEN <<>>
    ELSE IF Head(s) = "\"" /\ Len(s) >= 2 /\ s[2] = "\""
         THEN <<"\"">> \o Undouble(Tail(Tail(s)))
         ELSE <<Head(s)>> \o Undouble(Tail(s))

\* every quote of a quoted field's content is one of a doubled pair
RECURSIVE QuotesPaired(_)
QuotesPaired(s) ==
    IF s = <<>> THEN TRUE
    ELSE IF Head(s) = "\""
         THEN Len(s) >= 2 /\ s[2] = "\"" /\ QuotesPaired(Tail(Tail(s)))
         ELSE QuotesPaired(Tail(s))

\* a field as read: whether it was quoted, and its content; text in quotes
\* with an unpaired quote inside is not a quoted field
ReadField(raw) ==
    IF /\ Len(raw) >= 2
       /\ Head(raw) = "\""
       /\ raw[Len(raw)] = "\""
       /\ QuotesPaired(SubSeq(raw, 2, Len(raw) - 1))
    THEN [quoted |-> TRUE, val |-> Undouble(SubSeq(raw, 2, Len(raw) - 1))]
    ELSE [quoted |-> FALSE, val |-> raw]

\* the records of a text, and whether text is left over after the last one
ReadCsv(text) ==
    LET seps == Rising(Separators(text))
        ends == Rising({i \in Separators(text) : text[i] = "\n"})
        from(k) == IF k = 1 THEN 1 ELSE seps[k - 1] + 1
        field(k) == ReadField(SubSeq(text, from(k), seps[k] - 1))
        first(r) == IF r = 1 THEN 0 ELSE ends[r - 1]
        inrec(r) == {k \in 1..Len(seps) : first(r) < seps[k] /\ seps[k] <= ends[r]}
        record(r) == [n \in 1..Cardinality(inrec(r)) |-> field(Nth(inrec(r), n))]
    IN  [records |-> [r \in 1..Len(ends) |-> record(r)],
         open |-> text # <<>> /\ (Len(ends) = 0 \/ ends[Len(ends)] # Len(text))]

Quoted(s) == [quoted |-> TRUE, val |-> s]
Bare(s) == [quoted |-> FALSE, val |-> s]

CountLineBreaks(s) == Cardinality({i \in 1..Len(s) : s[i] = "\n"})

RECURSIVE EmbeddedLineBreaks(_)
EmbeddedLineBreaks(list) ==
    IF list = <<>> THEN 0
    ELSE CountLineBreaks(Head(list).date) + CountLineBreaks(Head(list).org)
         + CountLineBreaks(Head(list).tasks) + CountLineBreaks(Head(list).reflection)
         + CountLineBreaks(Head(list).tags) + EmbeddedLineBreaks(Tail(list))

\* C10 as stated: the export of n entries is exactly n + 1 newline-terminated
\* lines, text fields with embedded line breaks included.
C10_ExportHasOneLinePerEntry ==
    download # <<>> =>
        /\ download[Len(download)] = "\n"
        /\ CountLineBreaks(download) = Len(entries) + 1

\* C10 amended: the export of n entries is exactly n + 1 newline-terminated
\* CSV records, the header and one record per entry in list order, each text
\* field quoted with its interior quotes doubled and hours unquoted, so that
\* a CSV reader gets every field back; the text holds n + 1 line breaks plus
\* one for each line break embedded in a text field.
C10_ExportHasOneRecordPerEntry ==
    download # <<>> =>
        LET csv == ReadCsv(download) IN
        /\ ~csv.open
        /\ Len(csv.records) = Len(entries) + 1
        /\ csv.records[1] =
               <<Bare(<<"date">>), Bare(<<"organization">>), Bare(<<"hours">>),
                 Bare(<<"tasks">>), Bare(<<"reflection">>), Bare(<<"tags">>),
                 Bare(<<"created_at">>)>>
        /\ \A i \in 1..Len(entries) :
               csv.records[i + 1] =
                   <<Quoted(entries[i].date), Quoted(entries[i].org),
                     Bare(FmtF32(entries[i].hours)), Quoted(entries[i].tasks),
                     Quoted(entries[i].reflection), Quoted(entries[i].tags),
                     Quoted(StampText(entries[i].created_at))>>
        /\ CountLineBreaks(download) =
               Len(entries) + 1 + EmbeddedLineBreaks(entries)

\* C10's case: the export of two entries, one with a quote and a comma in its
\* tasks and one with a line break in its reflection
C10_Witness ==
    /\ download # <<>>
    /\ Len(entries) = 2
    /\ \E i \in 1..2 : \E k \in 1..Len(entries[i].tasks) : entries[i].tasks[k] = "\""
    /\ \E i \in 1..2 : CountLineBreaks(entries[i].reflection) > 0

====
